---- MODULE Spec2Model ----
(***************************************************************************)
(* JIRA to PyPubSub bridge (src/jira_to_pubsub.py).                        *)
(*                                                                         *)
(* The program polls JIRA, and for every issue of the fetched change set   *)
(* builds a JiraTicket, parses its changelog, comments and worklog into    *)
(* events against the per-issue watermark UPDATES[key], advances the       *)
(* watermark to the largest event timestamp and posts the events.          *)
(*                                                                         *)
(* Times are whole seconds since the epoch.  A JIRA timestamp string is    *)
(* modelled as the pair <<wall clock reading, UTC offset>> it spells out;  *)
(* jira_to_datetime and timestamp turn it into an instant.                 *)
(* Event fields that no decision of the program reads (link, summary,      *)
(* project, author, author_uid) are left out of the event records; the     *)
(* field origin is added to name the sub-record an event was built from.   *)
(***************************************************************************)
EXTENDS Integers, Sequences, FiniteSets, TLC

VARIABLES
    UPDATES,     \* the module-level dict: issue key -> last seen update
    pc,          \* position of the main loop
    fetched,     \* how the last fetch_changes ended
    change_set,  \* what fetch_changes returned; the issues not yet processed
    now,         \* process_changes' reading of the wall clock
    ticket,      \* the JiraTicket of the issue being processed
    post_idx,    \* index of the next event of ticket.events to post
    posted,      \* how the latest requests.post ended
    emitted,     \* history: per issue, the latest effective time reported
    reported     \* history: the sub-records reported so far, if it is kept

vars ==
    <<UPDATES, pc, fetched, change_set, now, ticket, post_idx, posted, emitted, reported>>

---------------------------------------------------------------------------
(* Program constants *)

\* timedelta.seconds is the seconds part of a timedelta: 0 .. 86399
DaySeconds == 86400

\* process_changes: (now - ticket.created).seconds <= 30
Grace == 30

\* LAUNCH_TIME = time.time(): some instant after the epoch
LAUNCH_TIME == 2 * DaySeconds

\* DEFAULT_POLL_INTERVAL is not modelled: sleeping changes no state.

---------------------------------------------------------------------------
(* Bounds of the model *)

\* sub-record times range over LAUNCH_TIME .. LAUNCH_TIME + MaxTime
MaxTime == 2

\* sub-records (history entries, comments, worklog entries) of one issue
MaxEntries == 2

\* changed-field items of one history entry
MaxItems == 2

Keys == {"A-1", "B-2"}

Times == LAUNCH_TIME .. (LAUNCH_TIME + MaxTime)

\* the JIRA server writes its timestamps in UTC+1
ServerTz == DaySeconds \div 24

---------------------------------------------------------------------------
(* JIRA timestamps *)

\* a JSON field that is not there
NoField == <<>>

\* the timestamp string JIRA writes for the instant t
JiraTime(t) == <<t + ServerTz, ServerTz>>

\* datetime.datetime.strptime(t, "%Y-%m-%dT%H:%M:%S.%f%z"): an aware datetime
jira_to_datetime(t) == [wall |-> t[1], utcoffset |-> t[2]]

\* datetime.timestamp() of an aware datetime
timestamp(dt) == dt.wall - dt.utcoffset

\* (a - b).seconds for two instants: the seconds part of the timedelta
\* (days, seconds), 0 <= seconds < 86400
timedelta_seconds(a, b) == (a - b) % DaySeconds

---------------------------------------------------------------------------
(* JSON values *)

\* a key that a JSON object does not have, or whose value is null
Absent == "(absent)"

\* dict.get(key, default) for a key of an item
get(value, default) == IF value = Absent THEN default ELSE value

\* Python truth of a string-or-None value
truthy_unless_none(value) == value # Absent

truthy(value) == value # Absent /\ value # ""

\* a sub-record of an issue: a history entry, a comment or a worklog entry.
\* created/updated are timestamp strings or NoField; items is the list of
\* changed fields of a history entry; body is comment["body"] or
\* worklog["comment"]; timeSpentSeconds is the worklog's duration.
Entry(created, updated, items, body, spent) ==
    [created |-> created, updated |-> updated, items |-> items,
     body |-> body, timeSpentSeconds |-> spent]

Item(field, from, to) == [field |-> field, fromString |-> from, toString |-> to]

\* one issue of the search result
Issue(key, created, description, histories, comments, worklogs) ==
    [key |-> key,
     fields |-> [created |-> created, updated |-> NoField,
                 description |-> description,
                 comment |-> comments, worklog |-> worklogs],
     changelog |-> histories]

---------------------------------------------------------------------------
(* class JiraTicket *)

\* UPDATES.get(key, LAUNCH_TIME)
WatermarkDefaultZero(key) == IF key \in DOMAIN UPDATES THEN UPDATES[key] ELSE 0

WatermarkOf(key) == IF key \in DOMAIN UPDATES THEN UPDATES[key] ELSE LAUNCH_TIME

\* UPDATES[key] = value
SetEveryWatermark(key, value) ==
    [k \in (DOMAIN UPDATES) \cup {key} |-> value]

SetWatermark(key, value) ==
    [k \in (DOMAIN UPDATES) \cup {key} |-> IF k = key THEN value ELSE UPDATES[k]]

NoIssue == Issue("", NoField, "", <<>>, <<>>, <<>>)

\* no ticket is being processed
NoTicket ==
    [key |-> "", created |-> 0, last_update |-> 0, events |-> <<>>,
     json_data |-> NoIssue, seen |-> FALSE]

\* JiraTicket.__init__; seen records whether UPDATES had an entry for the key
JiraTicket(json_data) ==
    [key |-> json_data.key,
     created |-> timestamp(jira_to_datetime(json_data.fields.created)),
     last_update |-> WatermarkOf(json_data.key),
     events |-> <<>>,
     json_data |-> json_data,
     seen |-> json_data.key \in DOMAIN UPDATES]

\* the value make_event_dict returns for an entry it ignores
None ==
    [key |-> "", action |-> "None", timestamp |-> 0, base_entry_created |-> 0,
     from |-> "", to |-> "", resolution |-> "", body |-> "", timespent |-> 0,
     description |-> "", action_human_text |-> <<>>,
     origin |-> [kind |-> "", entry |-> 0, item |-> 0]]

\* the comparison of make_event_dict: is the change older than the last seen
\* update?
IgnoreNothing(change_epoch, last_update) == FALSE

IsOlderOnly(change_epoch, last_update) == change_epoch < last_update

IsOld(change_epoch, last_update) == change_epoch <= last_update

\* JiraTicket.make_event_dict; kind and n name the entry
make_event_dict_by_created(t, entry, kind, n) ==
    IF entry.created = NoField
    THEN None
    ELSE LET change_epoch == timestamp(jira_to_datetime(entry.created))
         IN  IF IsOld(change_epoch, t.last_update)
             THEN None
             ELSE [key |-> t.key, action |-> "unknown", timestamp |-> change_epoch,
                   base_entry_created |-> change_epoch,
                   from |-> "", to |-> "", resolution |-> "", body |-> "",
                   timespent |-> 0, description |-> "",
                   action_human_text |-> <<>>,
                   origin |-> [kind |-> kind, entry |-> n, item |-> 0]]

make_event_dict(t, entry, kind, n) ==
    IF entry.created = NoField
    THEN None
    ELSE LET stamp == IF entry.updated # NoField THEN entry.updated ELSE entry.created
             change_epoch == timestamp(jira_to_datetime(stamp))
         IN  IF IsOld(change_epoch, t.last_update)
             THEN None
             ELSE [key |-> t.key, action |-> "unknown", timestamp |-> change_epoch,
                   base_entry_created |-> timestamp(jira_to_datetime(entry.created)),
                   from |-> "", to |-> "", resolution |-> "", body |-> "",
                   timespent |-> 0, description |-> "",
                   action_human_text |-> <<>>,
                   origin |-> [kind |-> kind, entry |-> n, item |-> 0]]

\* the guard "if self.last_update > 0" in front of every append
ReportableOnceSeen(t) == t.last_update > LAUNCH_TIME

Reportable(t) == t.last_update > 0

\* the events one item of a qualifying history entry appends (none or one)
item_events(t, base_event, item, n) ==
    LET new_event == [base_event EXCEPT !.origin.item = n]
    IN
    IF item.field = "resolution"
    THEN IF ~ truthy(item.fromString)
         THEN LET res == get(item.toString, "Unresolved")
              IN  IF Reportable(t)
                  THEN << [new_event EXCEPT !.action = "close", !.resolution = res,
                             !.action_human_text = <<"closed", t.key, "as", res>>] >>
                  ELSE << >>
         ELSE IF Reportable(t)
              THEN LET old_resolution == item.fromString
                       new_resolution == get(item.toString, "Unresolved")
                   IN  << [new_event EXCEPT !.action = "resolution",
                             !.from = old_resolution, !.to = new_resolution,
                             !.action_human_text =
                                 <<"changed the resolution of", t.key, "from">>] >>
              ELSE << >>
    ELSE IF item.field = "status"
    THEN IF Reportable(t)
         THEN << [new_event EXCEPT !.action = "status",
                    !.from = get(item.fromString, ""), !.to = item.toString,
                    !.action_human_text =
                        <<"changed the status of", t.key, "to", item.toString>>] >>
         ELSE << >>
    ELSE IF item.field = "summary"
    THEN IF Reportable(t)
         THEN << [new_event EXCEPT !.action = "summary",
                    !.from = get(item.fromString, ""), !.to = item.toString,
                    !.action_human_text = <<"changed the summary of", t.key>>] >>
         ELSE << >>
    ELSE IF item.field = "description"
    THEN IF Reportable(t)
         THEN << [new_event EXCEPT !.action = "description",
                    !.from = get(item.fromString, ""), !.to = item.toString,
                    !.action_human_text = <<"changed the description of", t.key>>] >>
         ELSE << >>
    ELSE IF item.field = "assignee"
    THEN LET old_assignee == get(item.fromString, "")
             new_assignee == get(item.toString, "")
         IN  IF Reportable(t)
             THEN << [new_event EXCEPT !.action = "assign",
                        !.from = old_assignee, !.to = new_assignee,
                        !.action_human_text =
                            IF truthy(new_assignee)
                            THEN <<"assigned", new_assignee, "to", t.key>>
                            ELSE <<"unassigned", old_assignee, "from", t.key>>] >>
             ELSE << >>
    ELSE << >>

\* "for item in change['items']" from item n on
unclassified_item_events(t, base_event, items, n) ==
    IF n > Len(items)
    THEN << >>
    ELSE IF item_events(t, base_event, items[n], n) = << >> /\ Reportable(t)
         THEN << [base_event EXCEPT !.origin.item = n] >>
         ELSE item_events(t, base_event, items[n], n)

first_item_events(t, base_event, items, n) ==
    IF n > Len(items) THEN << >> ELSE item_events(t, base_event, items[n], n)

RECURSIVE items_events(_, _, _, _)
items_events(t, base_event, items, n) ==
    IF n > Len(items)
    THEN << >>
    ELSE item_events(t, base_event, items[n], n)
             \o items_events(t, base_event, items, n + 1)

\* JiraTicket.parse_changelog: the events appended, from history entry n on
RECURSIVE parse_changelog_from(_, _, _)
parse_changelog_from(t, elements, n) ==
    IF n > Len(elements)
    THEN << >>
    ELSE LET base_event == make_event_dict(t, elements[n], "history", n)
         IN  (IF base_event = None
              THEN << >>
              ELSE items_events(t, base_event, elements[n].items, 1))
                 \o parse_changelog_from(t, elements, n + 1)

parse_changelog(t) ==
    [t EXCEPT !.events = @ \o parse_changelog_from(t, t.json_data.changelog, 1)]

\* the events one comment appends (none or one)
comment_events_never_edit(t, comment, n) ==
    LET base_event == make_event_dict(t, comment, "comment", n)
    IN  IF base_event = None \/ ~ Reportable(t)
        THEN << >>
        ELSE << [base_event EXCEPT !.action = "comment",
                   !.body = comment.body,
                   !.action_human_text = <<"added a comment">>] >>

comment_events(t, comment, n) ==
    LET base_event == make_event_dict(t, comment, "comment", n)
    IN  IF base_event = None
        THEN << >>
        ELSE IF base_event.base_entry_created # base_event.timestamp
             THEN IF Reportable(t)
                  THEN << [base_event EXCEPT !.action = "comment_edit",
                             !.body = comment.body,
                             !.action_human_text = <<"edited a comment">>] >>
                  ELSE << >>
             ELSE IF Reportable(t)
                  THEN << [base_event EXCEPT !.action = "comment",
                             !.body = comment.body,
                             !.action_human_text = <<"added a comment">>] >>
                  ELSE << >>

RECURSIVE parse_comments_from(_, _, _)
parse_comments_from(t, elements, n) ==
    IF n > Len(elements)
    THEN << >>
    ELSE comment_events(t, elements[n], n) \o parse_comments_from(t, elements, n + 1)

\* JiraTicket.parse_comments
parse_comments(t) ==
    [t EXCEPT !.events = @ \o parse_comments_from(t, t.json_data.fields.comment, 1)]

\* the events one worklog entry appends (none or one)
worklog_events(t, worklog, n) ==
    LET base_event == make_event_dict(t, worklog, "worklog", n)
    IN  IF base_event = None
        THEN << >>
        ELSE IF base_event.base_entry_created # base_event.timestamp
             THEN IF Reportable(t)
                  THEN << [base_event EXCEPT !.action = "comment_edit",
                             !.body = worklog.body,
                             !.timespent = worklog.timeSpentSeconds,
                             !.action_human_text = <<"edited a worklog entry">>] >>
                  ELSE << >>
             ELSE IF Reportable(t)
                  THEN << [base_event EXCEPT !.action = "comment",
                             !.body = worklog.body,
                             !.timespent = worklog.timeSpentSeconds,
                             !.action_human_text = <<"added a worklog entry">>] >>
                  ELSE << >>

RECURSIVE parse_worklog_from(_, _, _)
parse_worklog_from(t, elements, n) ==
    IF n > Len(elements)
    THEN << >>
    ELSE worklog_events(t, elements[n], n) \o parse_worklog_from(t, elements, n + 1)

\* JiraTicket.parse_worklog
parse_worklog(t) ==
    [t EXCEPT !.events = @ \o parse_worklog_from(t, t.json_data.fields.worklog, 1)]

---------------------------------------------------------------------------
(* What JIRA can answer: the change sets fetch_changes may return *)

RECURSIVE SeqsUpTo(_, _)
\* the sequences over S of length at most n
SeqsUpTo(S, n) ==
    IF n = 0
    THEN { << >> }
    ELSE LET shorter == SeqsUpTo(S, n - 1)
         IN  shorter \cup { Append(s, x) : s \in { q \in shorter : Len(q) = n - 1 }, x \in S }

\* the changed-field items: one for every branch of parse_changelog
Items ==
    { Item("resolution", "", "Fixed"),
      Item("resolution", "Fixed", "Duplicate"),
      Item("status", "Open", "Closed"),
      Item("summary", "old title", "new title"),
      Item("description", "old text", "new text"),
      Item("assignee", "alice", ""),
      Item("assignee", "", "bob"),
      Item("labels", "", "urgent") }

\* created/updated of a sub-record: no creation time; created only;
\* created and updated at the same time; created and updated later
Stamps ==
    { <<NoField, NoField>> }
        \cup { <<JiraTime(c), NoField>> : c \in Times }
        \cup { <<JiraTime(c), JiraTime(LAUNCH_TIME + MaxTime)>> :
                 c \in { LAUNCH_TIME, LAUNCH_TIME + MaxTime } }

Comments == { Entry(s[1], s[2], << >>, "a comment", 0) : s \in Stamps }

Worklogs ==
    { Entry(JiraTime(c), NoField, << >>, "some work", 60) : c \in Times }
        \cup { Entry(JiraTime(LAUNCH_TIME), JiraTime(LAUNCH_TIME + MaxTime),
                     << >>, "some work", 60) }

\* history entries carry no "updated"
Histories(items) ==
    { Entry(JiraTime(c), NoField, i, "", 0) : c \in Times, i \in items }
        \cup { Entry(NoField, NoField, i, "", 0) : i \in items }

\* the issue was created this long before process_changes reads the clock:
\* just inside the grace window, just outside, and a day and a bit ago
Ages == { Grace, Grace + 1, DaySeconds + Grace }

\* process_changes reads the clock after every sub-record time
NowValues == { LAUNCH_TIME + MaxTime + 1 }

\* the sub-record lists of an issue with at most n sub-records
Contents(n) ==
    { c \in [h : SeqsUpTo(Histories({ <<Item("status", "Open", "Closed")>> }), n),
             c : SeqsUpTo(Comments, n),
             w : SeqsUpTo(Worklogs, n)] :
        Len(c.h) + Len(c.c) + Len(c.w) <= n }

\* one issue with up to MaxEntries simple sub-records
PlainIssues(ages, n) ==
    { Issue(k, JiraTime(t - a), "text", c.h, c.c, c.w) :
        k \in Keys, t \in NowValues, a \in ages, c \in Contents(n) }

\* one issue with one history entry of up to MaxItems items
HistoryIssues ==
    { Issue(k, JiraTime(t - (Grace + 1)), "text", <<h>>, << >>, << >>) :
        k \in Keys, t \in NowValues, h \in Histories(SeqsUpTo(Items, MaxItems)) }

\* the search results: no issue; one issue of any age with at most one
\* sub-record; one issue with up to MaxEntries sub-records; one issue with a
\* history entry of several items; two issues with at most one sub-record each
ChangeSets ==
    { << >> }
        \cup { <<i>> : i \in PlainIssues(Ages, 1) \cup PlainIssues({ Grace + 1 }, MaxEntries)
                                  \cup HistoryIssues }
        \cup { <<p[1], p[2]>> :
                 p \in { q \in PlainIssues({ Grace + 1 }, 1) \X PlainIssues({ Grace + 1 }, 1) :
                           q[1].key # q[2].key } }

\* the search results of a run that polls one issue again and again: the
\* issue with up to two sub-records, each with a creation time and an
\* effective time after the launch time
Polls ==
    { << >> }
        \cup { <<i>> : i \in { j \in PlainIssues({ Grace + 1 }, 2) :
                                /\ j.key = "A-1"
                                /\ \A l \in { j.changelog, j.fields.comment, j.fields.worklog } :
                                      \A n \in 1 .. Len(l) :
                                          /\ l[n].created # NoField
                                          /\ timestamp(jira_to_datetime(
                                                 IF l[n].updated # NoField
                                                 THEN l[n].updated
                                                 ELSE l[n].created)) > LAUNCH_TIME } }

---------------------------------------------------------------------------
(* The main loop *)

\* a value fetch_changes returns: a list of issues, or None
Returned(issues) == [none |-> FALSE, issues |-> issues]

ReturnedNone == [none |-> TRUE, issues |-> << >>]

Init ==
    /\ UPDATES = << >>
    /\ pc = "fetch"
    /\ fetched = "never"
    /\ change_set = Returned(<< >>)
    /\ now = 0
    /\ ticket = NoTicket
    /\ post_idx = 0
    /\ posted = "nothing"
    /\ emitted = [k \in Keys |-> 0]
    /\ reported = [kept |-> FALSE, events |-> {}]

\* fetch_changes returns the issues of the response
FetchOk ==
    /\ pc = "fetch"
    /\ \E issues \in (IF reported.kept THEN Polls ELSE ChangeSets) :
          change_set' = Returned(issues)
    /\ fetched' = "ok"
    /\ pc' = "process"
    /\ UNCHANGED <<UPDATES, now, ticket, post_idx, posted, emitted, reported>>

\* requests.RequestException: "return []"
FetchTransportError ==
    /\ pc = "fetch"
    /\ change_set' = Returned(<< >>)
    /\ fetched' = "transport error"
    /\ pc' = "process"
    /\ UNCHANGED <<UPDATES, now, ticket, post_idx, posted, emitted, reported>>

\* the response is JSON but no object: the assertion fails, its handler
\* prints and falls off the end of the function
FetchNotADict ==
    /\ pc = "fetch"
    /\ change_set' = ReturnedNone
    /\ fetched' = "not a dict"
    /\ pc' = "process"
    /\ UNCHANGED <<UPDATES, now, ticket, post_idx, posted, emitted, reported>>

\* main: change_set = fetch_changes(config)
fetch_changes == FetchOk \/ FetchTransportError \/ FetchNotADict

\* process_changes up to the for statement: iterating None raises TypeError,
\* which nothing catches
StartProcess ==
    /\ pc = "process"
    /\ IF change_set.none
       THEN /\ pc' = "crashed"
            /\ now' = now
       ELSE /\ pc' = "issue"
            /\ now' \in NowValues
    /\ UNCHANGED <<UPDATES, fetched, change_set, ticket, post_idx, posted, emitted, reported>>

\* for issue in changes: ticket = JiraTicket(config, issue)
NextIssue ==
    /\ pc = "issue"
    /\ change_set.issues # << >>
    /\ ticket' = JiraTicket(Head(change_set.issues))
    /\ change_set' = Returned(Tail(change_set.issues))
    /\ posted' = "nothing"
    /\ post_idx' = 0
    /\ pc' = "brand new"
    /\ UNCHANGED <<UPDATES, fetched, now, emitted, reported>>

\* the for loop is over; main sleeps and polls again
EndCycle ==
    /\ pc = "issue"
    /\ change_set.issues = << >>
    /\ ticket' = NoTicket
    /\ posted' = "nothing"
    /\ post_idx' = 0
    /\ now' = 0
    /\ pc' = "fetch"
    /\ UNCHANGED <<UPDATES, fetched, change_set, emitted, reported>>

\* ticket.last_update == 0 and (now - ticket.created).seconds <= 30
IsBrandNew(t, clock) ==
    t.last_update = 0 /\ timedelta_seconds(clock, t.created) <= Grace

\* base_event of the brand-new branch with action, text and description set
create_event(t, base_event) ==
    [base_event EXCEPT !.action = "create",
                       !.action_human_text = <<"created", t.key>>,
                       !.description = t.json_data.fields.description]

\* "Is this a brand-new issue?": the create event.  make_event_dict may
\* return None, and assigning to None["action"] raises TypeError.
BrandNew ==
    /\ pc = "brand new"
    /\ IF IsBrandNew(ticket, now)
       THEN LET base_event == make_event_dict(ticket, ticket.json_data.fields, "issue", 0)
            IN  /\ UPDATES' = SetWatermark(ticket.key, ticket.created)
                /\ IF base_event = None
                   THEN /\ pc' = "crashed"
                        /\ ticket' = ticket
                   ELSE /\ pc' = "parse"
                        /\ ticket' = [ticket EXCEPT
                                        !.events = Append(@, create_event(ticket, base_event))]
       ELSE /\ pc' = "parse"
            /\ UNCHANGED <<UPDATES, ticket>>
    /\ UNCHANGED <<fetched, change_set, now, post_idx, posted, emitted, reported>>

Max(a, b) == IF a >= b THEN a ELSE b

RECURSIVE max_timestamp(_)
\* max([event["timestamp"] for event in events]) of a non-empty list
max_timestamp(events) ==
    IF Len(events) = 1
    THEN events[1].timestamp
    ELSE Max(events[1].timestamp, max_timestamp(Tail(events)))

\* ticket.parse_changelog(); ticket.parse_comments(); ticket.parse_worklog()
Parse ==
    /\ pc = "parse"
    /\ ticket' = parse_worklog(parse_comments(parse_changelog(ticket)))
    /\ pc' = "advance"
    /\ UNCHANGED <<UPDATES, fetched, change_set, now, post_idx, posted, emitted, reported>>

\* the new "last updated" marker of a ticket with events
LastTimestamp(events) == events[Len(events)].timestamp

NewWatermark(events) == max_timestamp(events)

\* the events of the ticket built from sub-records (all but the create event)
ChangeEvents(t) == { i \in 1 .. Len(t.events) : t.events[i].origin.kind # "issue" }

\* the sub-record of the ticket's snapshot, and its item, that an event
\* was built from
Source(t, event) ==
    [key |-> t.key, kind |-> event.origin.kind, item |-> event.origin.item,
     record |-> IF event.origin.kind = "history"
                THEN t.json_data.changelog[event.origin.entry]
                ELSE IF event.origin.kind = "comment"
                THEN t.json_data.fields.comment[event.origin.entry]
                ELSE t.json_data.fields.worklog[event.origin.entry]]

\* if ticket.events: UPDATES[ticket.key] = max(...); emitted notes the
\* latest effective time that was reported for the issue so far, reported
\* the sub-records the events were built from
Advance ==
    /\ pc = "advance"
    /\ UPDATES' =
         IF ticket.events # << >>
         THEN SetWatermark(ticket.key, NewWatermark(ticket.events))
         ELSE UPDATES
    /\ emitted' =
         IF ticket.events # << >>
         THEN [emitted EXCEPT ![ticket.key] = Max(@, max_timestamp(ticket.events))]
         ELSE emitted
    /\ reported' =
         IF reported.kept
         THEN [reported EXCEPT !.events =
                 @ \cup { Source(ticket, ticket.events[i]) : i \in ChangeEvents(ticket) }]
         ELSE reported
    /\ post_idx' = 1
    /\ pc' = "post"
    /\ UNCHANGED <<fetched, change_set, now, ticket, posted>>

\* config.debug: False, the events are posted
debug == FALSE

\* requests.post(target_url, json=event, timeout=5) went through
PostOk ==
    /\ pc = "post"
    /\ post_idx <= Len(ticket.events)
    /\ posted' = IF debug THEN posted ELSE "ok"
    /\ post_idx' = post_idx + 1
    /\ UNCHANGED <<UPDATES, pc, fetched, change_set, now, ticket, emitted, reported>>

\* requests.RequestException: printed, the loop goes on
PostFailsUncaught ==
    /\ pc = "post"
    /\ ~ debug
    /\ post_idx <= Len(ticket.events)
    /\ posted' = "failed"
    /\ pc' = "crashed"
    /\ UNCHANGED <<UPDATES, fetched, change_set, now, ticket, post_idx, emitted, reported>>

PostFails ==
    /\ pc = "post"
    /\ ~ debug
    /\ post_idx <= Len(ticket.events)
    /\ posted' = "failed"
    /\ post_idx' = post_idx + 1
    /\ UNCHANGED <<UPDATES, pc, fetched, change_set, now, ticket, emitted, reported>>

\* all events of the ticket were handed to pubsub: on to the next issue
PostDone ==
    /\ pc = "post"
    /\ post_idx > Len(ticket.events)
    /\ pc' = "issue"
    /\ UNCHANGED <<UPDATES, fetched, change_set, now, ticket, post_idx, posted, emitted, reported>>

\* process_changes(config, change_set)
process_changes ==
    \/ StartProcess
    \/ NextIssue
    \/ BrandNew
    \/ Parse
    \/ Advance
    \/ PostOk
    \/ PostFails
    \/ PostDone
    \/ EndCycle

\* main: while True
Next == fetch_changes \/ process_changes

Spec == Init /\ [][Next]_vars

\* one issue polled again and again, with the history of what was reported
InitHistory ==
    /\ UPDATES = << >>
    /\ pc = "fetch"
    /\ fetched = "never"
    /\ change_set = Returned(<< >>)
    /\ now = 0
    /\ ticket = NoTicket
    /\ post_idx = 0
    /\ posted = "nothing"
    /\ emitted = [k \in Keys |-> 0]
    /\ reported = [kept |-> TRUE, events |-> {}]

SpecHistory == InitHistory /\ [][Next]_vars

---------------------------------------------------------------------------
(* Vocabulary of the properties *)

\* the instant a JIRA timestamp string denotes
Instant(stamp) == stamp[1] - stamp[2]

\* update time if present, else creation time
EffectiveTime(entry) ==
    IF entry.updated # NoField THEN Instant(entry.updated) ELSE Instant(entry.created)

\* the sub-records of the ticket's snapshot, by kind and position
SubRecords(t) ==
    { [kind |-> "history", entry |-> n] : n \in 1 .. Len(t.json_data.changelog) }
        \cup { [kind |-> "comment", entry |-> n] : n \in 1 .. Len(t.json_data.fields.comment) }
        \cup { [kind |-> "worklog", entry |-> n] : n \in 1 .. Len(t.json_data.fields.worklog) }

SubRecord(t, r) ==
    IF r.kind = "history" THEN t.json_data.changelog[r.entry]
    ELSE IF r.kind = "comment" THEN t.json_data.fields.comment[r.entry]
    ELSE t.json_data.fields.worklog[r.entry]

\* the events of the ticket built from sub-record r
EventsFrom(t, r) ==
    { i \in 1 .. Len(t.events) :
        t.events[i].origin.kind = r.kind /\ t.events[i].origin.entry = r.entry }

CreateEvents(t) == { i \in 1 .. Len(t.events) : t.events[i].action = "create" }

\* a sub-record with a creation time and an effective time after the watermark
Qualifies(entry, watermark) ==
    entry.created # NoField /\ EffectiveTime(entry) > watermark

RecognisedFields == {"resolution", "status", "summary", "description", "assignee"}

\* a ticket is at hand and its three parse calls have returned
Parsed == ticket.key # "" /\ pc \in {"advance", "post", "issue"}

\* a ticket is at hand and its watermark write is behind it
Advanced == ticket.key # "" /\ pc \in {"post", "issue"}

---------------------------------------------------------------------------
(* C1 *)

\* C1: every event that parse_changelog, parse_comments or parse_worklog
\* appended carries the effective time of its sub-record, and that time is
\* strictly greater than the watermark the ticket read when the pass started;
\* a sub-record without a creation time, or with an effective time at or
\* before that watermark, has no event.
C1_EventsNewerThanWatermark ==
    Parsed =>
        /\ \A i \in ChangeEvents(ticket) :
             /\ ticket.events[i].timestamp > ticket.last_update
             /\ \E r \in SubRecords(ticket) :
                  /\ i \in EventsFrom(ticket, r)
                  /\ SubRecord(ticket, r).created # NoField
                  /\ ticket.events[i].timestamp = EffectiveTime(SubRecord(ticket, r))
        /\ \A r \in SubRecords(ticket) :
             ~ Qualifies(SubRecord(ticket, r), ticket.last_update)
                 => EventsFrom(ticket, r) = {}

\* a pass reported one sub-record and read another whose effective time is
\* exactly the watermark
C1_Witness ==
    /\ Parsed
    /\ ChangeEvents(ticket) # {}
    /\ \E r \in SubRecords(ticket) :
         /\ SubRecord(ticket, r).created # NoField
         /\ EffectiveTime(SubRecord(ticket, r)) = ticket.last_update

---------------------------------------------------------------------------
(* C2 *)

\* what processing the snapshot json_data would do in the current state:
\* the events of the pass and the watermark map after it
Reprocessed(json_data) ==
    LET t0 == JiraTicket(json_data)
        base_event == make_event_dict(t0, json_data.fields, "issue", 0)
        t1 == IF IsBrandNew(t0, now) /\ base_event # None
              THEN [t0 EXCEPT !.events = <<create_event(t0, base_event)>>]
              ELSE t0
        t2 == parse_worklog(parse_comments(parse_changelog(t1)))
    IN  [events |-> t2.events,
         UPDATES |-> IF t2.events # << >>
                     THEN SetWatermark(t0.key, NewWatermark(t2.events))
                     ELSE IF IsBrandNew(t0, now)
                          THEN SetWatermark(t0.key, t0.created)
                          ELSE UPDATES]

\* C2: no pass reports an effective time that an earlier pass of the issue
\* already reported at or beyond (so a sub-record with an unchanged effective
\* time yields events in at most one pass), and right after a pass that
\* emitted events, processing the same snapshot again yields no event and
\* leaves the watermark map as it is.
C2_ReportedAtMostOnce ==
    /\ (ticket.key # "" /\ pc = "advance") =>
           \A i \in ChangeEvents(ticket) : ticket.events[i].timestamp > emitted[ticket.key]
    /\ (Advanced /\ ticket.events # << >>) =>
           /\ Reprocessed(ticket.json_data).events = << >>
           /\ Reprocessed(ticket.json_data).UPDATES = UPDATES

\* a later pass over an issue emitted events for a new sub-record and none for
\* a sub-record that an earlier pass reported
C2_Witness ==
    /\ Advanced
    /\ ticket.events # << >>
    /\ \E r \in SubRecords(ticket) :
         /\ SubRecord(ticket, r).created # NoField
         /\ EffectiveTime(SubRecord(ticket, r)) > LAUNCH_TIME
         /\ EffectiveTime(SubRecord(ticket, r)) <= ticket.last_update
         /\ EventsFrom(ticket, r) = {}

---------------------------------------------------------------------------
(* C3 *)

\* C3: no step removes an entry of UPDATES, and every step that writes
\* UPDATES[key] stores a value greater than or equal to the one in effect
\* before (the launch time when there was no entry).
C3_WatermarkNeverDecreases ==
    [][\A k \in Keys :
          /\ k \in DOMAIN UPDATES => k \in DOMAIN UPDATES'
          /\ k \in DOMAIN UPDATES' =>
                UPDATES'[k] >= (IF k \in DOMAIN UPDATES THEN UPDATES[k] ELSE LAUNCH_TIME)]_vars

\* the watermark of an issue that had an entry was written again, higher
C3_Witness ==
    /\ Advanced
    /\ ticket.seen
    /\ ticket.events # << >>
    /\ UPDATES[ticket.key] > ticket.last_update
    /\ ticket.last_update > LAUNCH_TIME

---------------------------------------------------------------------------
(* C4 *)

\* C4: once an issue is processed, if the pass produced events the issue's
\* watermark is the greatest of their timestamps, wherever in the list it
\* stands; if it produced none, the issue's entry of UPDATES is what it was
\* when the pass started (absent if it was absent).
C4_WatermarkIsMaxEventTime ==
    Advanced =>
        IF ticket.events # << >>
        THEN /\ ticket.key \in DOMAIN UPDATES
             /\ \A i \in 1 .. Len(ticket.events) :
                  ticket.events[i].timestamp <= UPDATES[ticket.key]
             /\ \E i \in 1 .. Len(ticket.events) :
                  ticket.events[i].timestamp = UPDATES[ticket.key]
        ELSE /\ ticket.key \in DOMAIN UPDATES <=> ticket.seen
             /\ ticket.seen => UPDATES[ticket.key] = ticket.last_update

\* a pass whose newest event is not the last of the list
C4_Witness ==
    /\ Advanced
    /\ Len(ticket.events) >= 2
    /\ ticket.events[1].timestamp > ticket.events[Len(ticket.events)].timestamp

---------------------------------------------------------------------------
(* C5, C6 *)

\* the issue's age when process_changes read the clock
Age(t) == now - t.created

\* C5: once the brand-new check has run for an issue that has no entry in
\* UPDATES and was created at most 30 seconds before the clock reading, the
\* ticket holds exactly one event, a create event with the issue's
\* description, and UPDATES[key] is the creation time.
C5_FreshIssueIsReportedAsCreated ==
    (ticket.key # "" /\ pc = "parse" /\ ~ ticket.seen
        /\ Age(ticket) >= 0 /\ Age(ticket) <= Grace) =>
        /\ Len(ticket.events) = 1
        /\ ticket.events[1].action = "create"
        /\ ticket.events[1].description = ticket.json_data.fields.description
        /\ ticket.key \in DOMAIN UPDATES
        /\ UPDATES[ticket.key] = ticket.created

\* C6: a ticket whose issue was created more than 30 seconds before the
\* clock reading of its pass never holds a create event.
C6_NoCreateOutsideGrace ==
    (ticket.key # "" /\ Age(ticket) > Grace) => CreateEvents(ticket) = {}

\* the brand-new check has run for a never seen issue that is more than a day
\* old and whose timedelta has a seconds part within the grace window
C6_Witness ==
    /\ ticket.key # ""
    /\ pc = "parse"
    /\ ~ ticket.seen
    /\ Age(ticket) > DaySeconds
    /\ Age(ticket) % DaySeconds <= Grace

---------------------------------------------------------------------------
(* C7 *)

\* C7 as claimed: while the issue has no entry in UPDATES, a pass appends no
\* history, comment or worklog event.
C7_NoChangeEventWhileUnseen ==
    (Parsed /\ ~ ticket.seen) => ChangeEvents(ticket) = {}

\* C7, amended: an issue without an entry in UPDATES is read with the launch
\* time as watermark, which is greater than 0, so the guard last_update > 0
\* holds nothing back: the pass appends events for exactly the sub-records
\* that have a creation time and an effective time later than the launch
\* time (a history entry: if it has a recognised item), and for no other.
C7_UnseenIssueReportsChangesAfterLaunch ==
    (Parsed /\ ~ ticket.seen) =>
        /\ ticket.last_update = LAUNCH_TIME
        /\ ticket.last_update > 0
        /\ \A r \in SubRecords(ticket) :
             LET entry == SubRecord(ticket, r)
                 wanted == /\ entry.created # NoField
                           /\ EffectiveTime(entry) > LAUNCH_TIME
                           /\ r.kind = "history" =>
                                \E n \in 1 .. Len(entry.items) :
                                    entry.items[n].field \in RecognisedFields
             IN  wanted <=> EventsFrom(ticket, r) # {}

\* a pass over a never seen issue reported a sub-record later than the launch
C7_Witness ==
    /\ Parsed
    /\ ~ ticket.seen
    /\ ChangeEvents(ticket) # {}
    /\ \E r \in SubRecords(ticket) :
         /\ SubRecord(ticket, r).created # NoField
         /\ EffectiveTime(SubRecord(ticket, r)) <= LAUNCH_TIME

---------------------------------------------------------------------------
(* C8, C9 *)

\* the items of a history entry that parse_changelog has a branch for
RecognisedItems(entry) ==
    { n \in 1 .. Len(entry.items) : entry.items[n].field \in RecognisedFields }

\* C8 as claimed: every qualifying sub-record has exactly one event.
C8_OneEventPerCandidate ==
    Parsed =>
        \A r \in SubRecords(ticket) :
            Qualifies(SubRecord(ticket, r), ticket.last_update)
                => Cardinality(EventsFrom(ticket, r)) = 1

\* C8, amended: every qualifying comment and worklog entry has exactly one
\* event; a qualifying history entry has exactly one event for each of its
\* items whose field is resolution, status, summary, description or
\* assignee and none for its other items, so it may have none or several.
C8_OneEventPerCommentAndPerRecognisedItem ==
    Parsed =>
        \A r \in SubRecords(ticket) :
            LET entry == SubRecord(ticket, r)
            IN  Qualifies(entry, ticket.last_update) =>
                    IF r.kind = "history"
                    THEN /\ Cardinality(EventsFrom(ticket, r))
                              = Cardinality(RecognisedItems(entry))
                         /\ \A n \in 1 .. Len(entry.items) :
                              Cardinality({ i \in EventsFrom(ticket, r) :
                                              ticket.events[i].origin.item = n })
                                  = (IF n \in RecognisedItems(entry) THEN 1 ELSE 0)
                    ELSE Cardinality(EventsFrom(ticket, r)) = 1

\* a pass reported a history entry with two recognised items, and so twice
C8_Witness ==
    /\ Parsed
    /\ \E r \in SubRecords(ticket) :
         /\ r.kind = "history"
         /\ Qualifies(SubRecord(ticket, r), ticket.last_update)
         /\ Cardinality(RecognisedItems(SubRecord(ticket, r))) = 2
         /\ Cardinality(EventsFrom(ticket, r)) = 2

\* C9: in every pass each comment, each worklog entry and each recognised
\* item of a history entry, of a sub-record that has a creation time and an
\* effective time after the watermark read at the start of the pass, has an
\* event of that pass carrying that effective time.
C9_NewerChangesAreNotSkipped ==
    Parsed =>
        \A r \in SubRecords(ticket) :
            LET entry == SubRecord(ticket, r)
            IN  Qualifies(entry, ticket.last_update) =>
                    IF r.kind = "history"
                    THEN \A n \in RecognisedItems(entry) :
                            \E i \in EventsFrom(ticket, r) :
                                /\ ticket.events[i].origin.item = n
                                /\ ticket.events[i].timestamp = EffectiveTime(entry)
                    ELSE \E i \in EventsFrom(ticket, r) :
                            ticket.events[i].timestamp = EffectiveTime(entry)

\* a pass over a seen issue reported an edited comment or worklog entry that
\* was created at or before the watermark
C9_Witness ==
    /\ Parsed
    /\ ticket.seen
    /\ \E r \in SubRecords(ticket) :
         /\ r.kind # "history"
         /\ SubRecord(ticket, r).created # NoField
         /\ Instant(SubRecord(ticket, r).created) <= ticket.last_update
         /\ EffectiveTime(SubRecord(ticket, r)) > ticket.last_update
         /\ EventsFrom(ticket, r) # {}

---------------------------------------------------------------------------
(* C10 *)

\* C10: after a failed fetch, transport error or a response that is no JSON
\* object, fetch_changes has returned the empty list, no ticket is built, no
\* watermark is written and the main loop does not terminate.
C10_FailedFetchIsAnEmptyCycle ==
    fetched \in {"transport error", "not a dict"} =>
        /\ change_set = Returned(<< >>)
        /\ ticket = NoTicket
        /\ pc # "crashed"

---------------------------------------------------------------------------
(* C11 *)

\* C11: when the post of an event has failed, the program goes on: the
\* failed event is at or before the issue's watermark, which was written
\* before the first post, so processing the snapshot again yields no event;
\* when the event loop of an issue is left every event of the issue was
\* handed to requests.post, and a cycle ends only with every issue processed.
C11_FailedPostIsDroppedAndTheRestIsPosted ==
    /\ posted = "failed" =>
          /\ pc \in {"post", "issue"}
          /\ post_idx >= 2
          /\ ticket.key \in DOMAIN UPDATES
          /\ ticket.events[post_idx - 1].timestamp <= UPDATES[ticket.key]
          /\ ticket.events[post_idx - 1].timestamp <= emitted[ticket.key]
          /\ Reprocessed(ticket.json_data).events = << >>
    /\ (pc = "issue" /\ ticket.key # "") => post_idx = Len(ticket.events) + 1
    /\ pc = "fetch" => change_set.issues = << >>

\* the post of an event failed and another event of the issue is still to post
C11_Witness ==
    /\ pc = "post"
    /\ posted = "failed"
    /\ post_idx <= Len(ticket.events)

---------------------------------------------------------------------------
(* C12 *)

\* the issue's entry of UPDATES is the one the pass found
EntryAsRead(t) ==
    /\ t.key \in DOMAIN UPDATES <=> t.seen
    /\ t.seen => UPDATES[t.key] = t.last_update

\* the issue's entry of UPDATES covers every event of the pass
EntryCoversAllEvents(t) ==
    /\ t.key \in DOMAIN UPDATES
    /\ \A i \in 1 .. Len(t.events) : t.events[i].timestamp <= UPDATES[t.key]

\* C12: while an issue is processed, its entry of UPDATES is the one read at
\* the start of the pass until all three parsers have returned, and nothing
\* was posted by then; from the first post on it covers every event of the
\* issue (or is untouched if there is none); the events handed to the parsers'
\* successor steps are those of the one snapshot the ticket holds; and the
\* next issue is read only after the event loop of this one was left.
C12_WatermarkWrittenOnceBetweenParseAndPost ==
    ticket.key # "" =>
        /\ pc \in {"brand new", "parse", "advance"} =>
              /\ EntryAsRead(ticket)
              /\ post_idx = 0
              /\ posted = "nothing"
        /\ pc \in {"post", "issue"} =>
              /\ post_idx >= 1
              /\ IF ticket.events = << >>
                 THEN EntryAsRead(ticket)
                 ELSE EntryCoversAllEvents(ticket)
        /\ pc \in {"advance", "post", "issue"} =>
              ticket.events =
                  parse_worklog(parse_comments(parse_changelog(
                      [ticket EXCEPT !.events = << >>]))).events
        /\ \A n \in 1 .. Len(change_set.issues) :
              change_set.issues[n].key # ticket.key

\* the three parsers have returned with events, the issue's entry of UPDATES
\* is still the one read, and another issue is waiting
C12_Witness ==
    /\ pc = "advance"
    /\ Len(ticket.events) >= 1
    /\ change_set.issues # << >>
    /\ EntryAsRead(ticket)

---------------------------------------------------------------------------
(* C13 .. C17: classification *)

\* the events of the ticket built from item n of history entry r
ItemEvents(t, r, n) == { i \in EventsFrom(t, r) : t.events[i].origin.item = n }

\* the items of a history entry with the given field
ItemsOf(entry, field) == { n \in 1 .. Len(entry.items) : entry.items[n].field = field }

\* the qualifying history entries of the ticket's snapshot
QualifyingHistories(t) ==
    { r \in SubRecords(t) :
        r.kind = "history" /\ Qualifies(SubRecord(t, r), t.last_update) }

IsEmpty(value) == value = Absent \/ value = ""

\* C13: a resolution item of a qualifying history entry has exactly one
\* event: with an empty previous value a close event whose resolution is the
\* new value, with a non-empty previous value a resolution event whose from
\* and to are the previous and the new value.
C13_ResolutionIsCloseOrChange ==
    Parsed =>
        \A r \in QualifyingHistories(ticket) :
            \A n \in ItemsOf(SubRecord(ticket, r), "resolution") :
                LET item == SubRecord(ticket, r).items[n]
                IN  /\ Cardinality(ItemEvents(ticket, r, n)) = 1
                    /\ \A i \in ItemEvents(ticket, r, n) :
                         IF IsEmpty(item.fromString)
                         THEN /\ ticket.events[i].action = "close"
                              /\ ticket.events[i].resolution = item.toString
                         ELSE /\ ticket.events[i].action = "resolution"
                              /\ ticket.events[i].from = item.fromString
                              /\ ticket.events[i].to = item.toString

\* a pass reported a history entry that closes the issue and then changes
\* the resolution
C13_Witness ==
    /\ Parsed
    /\ \E i, j \in 1 .. Len(ticket.events) :
         /\ ticket.events[i].action = "close"
         /\ ticket.events[j].action = "resolution"
         /\ ticket.events[i].origin.entry = ticket.events[j].origin.entry

\* C14: a qualifying comment or worklog entry has exactly one event; its
\* action is comment if the entry has no update time or one equal to its
\* creation time and comment_edit if the update time differs; the event
\* carries the entry's body and the issue key.
C14_CommentOrCommentEdit ==
    Parsed =>
        \A r \in SubRecords(ticket) :
            LET entry == SubRecord(ticket, r)
                edited == /\ entry.updated # NoField
                          /\ Instant(entry.updated) # Instant(entry.created)
            IN  (r.kind \in {"comment", "worklog"} /\ Qualifies(entry, ticket.last_update)) =>
                    /\ Cardinality(EventsFrom(ticket, r)) = 1
                    /\ \A i \in EventsFrom(ticket, r) :
                         /\ ticket.events[i].action =
                                (IF edited THEN "comment_edit" ELSE "comment")
                         /\ ticket.events[i].body = entry.body
                         /\ ticket.events[i].key = ticket.json_data.key
                         /\ ticket.events[i].key \in Keys

\* a pass reported an edited comment and a comment whose update time is its
\* creation time
C14_Witness ==
    /\ Parsed
    /\ \E r, q \in SubRecords(ticket) :
         /\ r.kind = "comment"
         /\ q.kind = "comment"
         /\ SubRecord(ticket, r).updated # NoField
         /\ SubRecord(ticket, r).updated = SubRecord(ticket, r).created
         /\ \E i \in EventsFrom(ticket, r) : ticket.events[i].action = "comment"
         /\ \E i \in EventsFrom(ticket, q) : ticket.events[i].action = "comment_edit"

\* C15: an assignee item of a qualifying history entry has exactly one
\* event, an assign event with the previous and the new value as from and
\* to; its text says "unassigned" and names the previous assignee if the new
\* value is empty, and says "assigned" and names the new assignee otherwise.
C15_AssignOrUnassign ==
    Parsed =>
        \A r \in QualifyingHistories(ticket) :
            \A n \in ItemsOf(SubRecord(ticket, r), "assignee") :
                LET item == SubRecord(ticket, r).items[n]
                IN  /\ Cardinality(ItemEvents(ticket, r, n)) = 1
                    /\ \A i \in ItemEvents(ticket, r, n) :
                         LET text == ticket.events[i].action_human_text
                         IN  /\ ticket.events[i].action = "assign"
                             /\ ticket.events[i].from = item.fromString
                             /\ ticket.events[i].to = item.toString
                             /\ Len(text) >= 2
                             /\ IF IsEmpty(item.toString)
                                THEN text[1] = "unassigned" /\ text[2] = item.fromString
                                ELSE text[1] = "assigned" /\ text[2] = item.toString

\* a pass reported an unassignment and an assignment
C15_Witness ==
    /\ Parsed
    /\ \E i, j \in 1 .. Len(ticket.events) :
         /\ ticket.events[i].action = "assign"
         /\ ticket.events[j].action = "assign"
         /\ ticket.events[i].to = ""
         /\ ticket.events[j].to # ""

\* the words of a text
Words(text) == { text[n] : n \in 1 .. Len(text) }

\* C16: the text of every resolution event contains the previous and the
\* new resolution value.
C16_ResolutionTextNamesFromAndTo ==
    Parsed =>
        \A i \in 1 .. Len(ticket.events) :
            ticket.events[i].action = "resolution" =>
                /\ ticket.events[i].from \in Words(ticket.events[i].action_human_text)
                /\ ticket.events[i].to \in Words(ticket.events[i].action_human_text)

\* C17: a qualifying history entry with items, none of them recognised, has
\* no event; if the pass has no other event the issue's entry of UPDATES is
\* as it was read; and processing the same snapshot again yields no event of
\* that entry either.
C17_OtherFieldsAreSilent ==
    Parsed =>
        \A r \in QualifyingHistories(ticket) :
            RecognisedItems(SubRecord(ticket, r)) = {} =>
                /\ EventsFrom(ticket, r) = {}
                /\ (Advanced /\ ticket.events = << >>) => EntryAsRead(ticket)
                /\ Advanced =>
                      \A i \in 1 .. Len(Reprocessed(ticket.json_data).events) :
                          LET again == Reprocessed(ticket.json_data).events[i]
                          IN  ~ (again.origin.kind = "history" /\ again.origin.entry = r.entry)

\* a pass over a seen issue with nothing but a qualifying history entry of
\* two unrecognised items is done, without events
C17_Witness ==
    /\ Advanced
    /\ ticket.seen
    /\ ticket.events = << >>
    /\ \E r \in QualifyingHistories(ticket) :
         /\ Len(SubRecord(ticket, r).items) = 2
         /\ RecognisedItems(SubRecord(ticket, r)) = {}

---------------------------------------------------------------------------
(* C19, C20: the watermark map *)

\* C19: no step of the processing of one issue changes the entry of UPDATES,
\* value or absence, of any other issue identifier.
C19_OtherEntriesUntouched ==
    [][\A k \in Keys \ {ticket.key} :
          /\ (k \in DOMAIN UPDATES) <=> (k \in DOMAIN UPDATES')
          /\ k \in DOMAIN UPDATES => UPDATES'[k] = UPDATES[k]]_vars

\* an issue's watermark has just been written while another issue has an
\* entry of a different value and the third identifier has none
C19_Witness ==
    /\ pc = "post"
    /\ post_idx = 1
    /\ ticket.events # << >>
    /\ \E k \in DOMAIN UPDATES : k # ticket.key /\ UPDATES[k] # UPDATES[ticket.key]

\* C20: the watermark read at the start of a pass is at least the launch
\* time and strictly positive, as is every stored entry, so last_update is
\* never 0.
C20_WatermarkAtLeastLaunchTime ==
    /\ ticket.key # "" =>
          /\ ticket.last_update >= LAUNCH_TIME
          /\ ticket.last_update > 0
    /\ \A k \in Keys : WatermarkOf(k) >= LAUNCH_TIME /\ WatermarkOf(k) > 0

\* an issue without an entry has just been read while another issue has one
C20_Witness ==
    /\ pc = "brand new"
    /\ ~ ticket.seen
    /\ ticket.last_update = LAUNCH_TIME
    /\ DOMAIN UPDATES # {}

---------------------------------------------------------------------------
(* C18: nothing is lost *)

\* what a sub-record of the ticket's snapshot has to report: each recognised
\* item of a history entry, a comment or worklog entry as a whole
Parts(t, r) ==
    IF r.kind = "history" THEN RecognisedItems(SubRecord(t, r)) ELSE {0}

\* the identity of part n of sub-record r, as reported keeps it
Reported(t, r, n) ==
    [key |-> t.key, kind |-> r.kind, item |-> n, record |-> SubRecord(t, r)]

\* the sub-records of the snapshot with a creation time and an effective
\* time after the launch time
AfterLaunch(t) ==
    { r \in SubRecords(t) :
        /\ SubRecord(t, r).created # NoField
        /\ EffectiveTime(SubRecord(t, r)) > LAUNCH_TIME }

\* C18 as claimed: when a pass over a snapshot is done, every part of a
\* sub-record of the snapshot later than the launch time either was reported,
\* by this pass or an earlier one, or is later than the issue's watermark and
\* so can still be reported by a later pass.
C18_EverySubRecordIsReported ==
    (Advanced /\ reported.kept) =>
        \A r \in AfterLaunch(ticket) : \A n \in Parts(ticket, r) :
            \/ Reported(ticket, r, n) \in reported.events
            \/ EffectiveTime(SubRecord(ticket, r)) > WatermarkOf(ticket.key)

\* C18, amended: when a pass over a snapshot is done, every part of a
\* sub-record of the snapshot whose effective time is later than the
\* watermark read at the start of the pass was reported by this pass; only a
\* part whose effective time is at or before that watermark may be
\* unreported.
C18_SubRecordsNewerThanWatermarkAreReported ==
    (Advanced /\ reported.kept) =>
        \A r \in AfterLaunch(ticket) : \A n \in Parts(ticket, r) :
            /\ EffectiveTime(SubRecord(ticket, r)) > ticket.last_update =>
                  /\ Reported(ticket, r, n) \in reported.events
                  /\ \E i \in EventsFrom(ticket, r) : ticket.events[i].origin.item = n
            /\ Reported(ticket, r, n) \notin reported.events =>
                  /\ EffectiveTime(SubRecord(ticket, r)) <= ticket.last_update
                  /\ EffectiveTime(SubRecord(ticket, r)) <= WatermarkOf(ticket.key)
                  /\ EventsFrom(ticket, r) = {}

\* a pass reported a sub-record newer than the watermark it read, and its
\* snapshot holds a sub-record never reported whose effective time is that
\* of a sub-record an earlier pass reported
C18_Witness ==
    /\ Advanced
    /\ reported.kept
    /\ \E r, q \in AfterLaunch(ticket) :
         /\ EventsFrom(ticket, r) # {}
         /\ \A n \in Parts(ticket, q) : Reported(ticket, q, n) \notin reported.events
         /\ Parts(ticket, q) # {}
         /\ \E e \in reported.events :
              /\ EffectiveTime(e.record) = EffectiveTime(SubRecord(ticket, q))
              /\ e.record # SubRecord(ticket, q)

====
